---- MODULE Spec2Model ----
(***************************************************************************)
(* Branch tracing and column layout of git-graph (graph.rs): the pipeline  *)
(* of GitGraph::new as a state machine, one action per stage and one       *)
(* action per traced candidate.                                            *)
(***************************************************************************)
EXTENDS Integers, Sequences, FiniteSets, TLC

\* ---------------------------------------------------------------- bounds
\* Largest number of commits the revision walk delivers.
MaxCommits == 3
\* Largest number of branch references of the repository.
MaxBranchRefs == 2
\* Largest number of tag references of the repository.
MaxTagRefs == 1
\* Largest number of references (branches and tags) of the repository.
MaxRefs == 2
\* Walks of more than MaxCommitsManyRefs commits have at most MaxRefsLongWalk
\* references.
MaxCommitsManyRefs == 2
MaxRefsLongWalk == 1
\* Number of commits of the walks of the two-branch histories.
TwoBranchCommits == 4
\* Largest number of object lookups that fail during one construction.
MaxLookupFailures == 1
\* extraction patterns per pattern list in the calls of parse_merge_summary
MaxPatterns == 2

\* ---------------------------------------------------------------- Option<T>
None == <<>>
Some(x) == <<x>>
IsSome(o) == o # <<>>
IsNone(o) == o = <<>>
Unwrap(o) == o[1]
UnwrapOr(o, d) == IF o = <<>> THEN d ELSE o[1]

Max2(a, b) == IF a >= b THEN a ELSE b

\* ---------------------------------------------------------------- names
\* A name is the sequence of its '/'-separated components, so that stripping a
\* prefix of a reference name is a SubSeq and "origin/x" is <<"origin", "x">>.
ORIGIN == "origin"
StartsWithOrigin(name) == Len(name) >= 2 /\ name[1] = ORIGIN
\* name[n..] for a prefix of n whole components
StripComponents(name, n) == SubSeq(name, n + 1, Len(name))

NameM == <<"m">>
NameF == <<"f">>
NameOriginM == <<"origin", "m">>
NameTagsT == <<"tags", "t">>
NameUnknown == <<"unknown">>

\* ---------------------------------------------------------------- settings
\* A pattern is the set of names its regular expression matches.
IsMatch(pattern, name) == name \in pattern

\* A merge summary is what each extraction pattern captures from it: per pattern,
\* None (no match) or Some(groups), groups being the capture groups 1..n, each
\* None (did not participate) or Some(text).
SummaryF == <<Some(<<Some(NameF)>>), None>>
SummaryNoMatch == <<None, None>>
SummaryTwoGroupsThenF == <<Some(<<Some(NameM), Some(NameF)>>), Some(<<Some(NameF)>>)>>
SummaryOptionalGroup == <<Some(<<None>>), None>>

Settings ==
    [ include_remote |-> TRUE,
      persistence |-> << {NameM} >>,
      order |-> << {NameM}, {NameF} >>,
      terminal_colors |-> << [re |-> {NameM}, cols |-> <<"bright_blue">>],
                             [re |-> {NameF}, cols |-> <<"bright_magenta", "bright_cyan">>] >>,
      terminal_colors_unknown |-> <<"white">>,
      svg_colors |-> << [re |-> {NameM}, cols |-> <<"blue">>],
                        [re |-> {NameF}, cols |-> <<"purple", "turquoise">>] >>,
      svg_colors_unknown |-> <<"gray">>,
      merge_patterns |-> <<1, 2>> ]

\* ---------------------------------------------------------------- pure helpers
\* branch_order: index of the first pattern matching the name, directly or after
\* the remote prefix; the table's length when none matches.
BranchOrder(name, order) ==
    LET hits == { i \in 1..Len(order) :
                    \/ (StartsWithOrigin(name) /\ IsMatch(order[i], StripComponents(name, 1)))
                    \/ IsMatch(order[i], name) }
    IN  IF hits = {} THEN Len(order)
        ELSE (CHOOSE i \in hits : \A j \in hits : i <= j) - 1

\* branch_color: round robin over the colour list of the first matching pattern,
\* or over the unknown list.
BranchColor(name, order, unknown, counter) ==
    LET hits == { i \in 1..Len(order) :
                    \/ (StartsWithOrigin(name) /\ IsMatch(order[i].re, StripComponents(name, 1)))
                    \/ IsMatch(order[i].re, name) }
    IN  IF hits = {} THEN unknown[(counter % Len(unknown)) + 1]
        ELSE LET col == order[CHOOSE i \in hits : \A j \in hits : i <= j].cols
             IN  col[(counter % Len(col)) + 1]

\* parse_merge_summary: the capture of the first pattern that matches with
\* Variant: the first pattern that matches decides, whatever its groups.
RECURSIVE ParseFromStopAtMatch(_, _, _)
ParseFromStopAtMatch(summary, patterns, k) ==
    IF k > Len(patterns) THEN None
    ELSE LET captures == summary[patterns[k]]
         IN  IF IsSome(captures)
             THEN IF Len(Unwrap(captures)) = 1 THEN Unwrap(captures)[1] ELSE None
             ELSE ParseFromStopAtMatch(summary, patterns, k + 1)

\* exactly one group (captures.len() == 2) that participated.
RECURSIVE ParseFrom(_, _, _)
ParseFrom(summary, patterns, k) ==
    IF k > Len(patterns) THEN None
    ELSE LET captures == summary[patterns[k]]
         IN  IF IsSome(captures) /\ Len(Unwrap(captures)) = 1 /\ IsSome(Unwrap(captures)[1])
             THEN Unwrap(captures)[1]
             ELSE ParseFrom(summary, patterns, k + 1)

ParseMergeSummary(summary, patterns) == ParseFrom(summary, patterns, 1)

\* Ascending sequence of a finite set of integers.
RECURSIVE SetToSeq(_)
SetToSeq(S) ==
    IF S = {} THEN <<>>
    ELSE LET x == CHOOSE y \in S : \A z \in S : y <= z
         IN  <<x>> \o SetToSeq(S \ {x})

\* ---------------------------------------------------------------- repository
\* The repository as the access layer presents it: commit i of the revision walk
\* has object id OidOf(i); an id beyond the walk belongs to a commit that was cut
\* off (max_count) or excluded (stash).
OidOf(i) == i + 1
MissingOid(n) == n + 1

\* Parent lists of commit i in a walk of n commits.  A parent id is the id of
\* a commit later in the (topological) walk or of a commit outside it; the two
\* slots of a merge are filled independently, so they may hold the same id.
\* MissingOid(n) stands for every commit outside the walk: none of them is in
\* `indices`, which is all the code asks about them.
ParentChoices(i, n) ==
    LET ids == { OidOf(j) : j \in (i + 1)..(n - 1) } \cup {MissingOid(n)}
    IN  {<<>>} \cup { <<p>> : p \in ids } \cup (ids \X ids)

SummaryChoices == {Some(SummaryNoMatch), Some(SummaryF)}

\* Reference names as stored: refs/heads/<name>, refs/remotes/<name>, refs/tags/<name>.
BranchRefNames ==
    { [name |-> <<"refs", "heads">> \o NameM, tp |-> "Local"],
      [name |-> <<"refs", "heads">> \o NameF, tp |-> "Local"],
      [name |-> <<"refs", "heads">> \o NameTagsT, tp |-> "Local"],
      [name |-> <<"refs", "remotes">> \o NameOriginM, tp |-> "Remote"] }

TagRefName == <<"refs", "tags", "t">>

\* Sequences without repetition of at most k elements of S.
RECURSIVE SeqsUpTo(_, _)
SeqsUpTo(S, k) ==
    IF k = 0 THEN {<<>>}
    ELSE LET shorter == SeqsUpTo(S, k - 1)
         IN  shorter \cup { Append(s, x) : s \in { t \in shorter : Len(t) = k - 1 },
                                            x \in S }

\* The number of references enumerated for a walk of n commits.
RefBudget(n) == IF n > MaxCommitsManyRefs THEN MaxRefsLongWalk ELSE MaxRefs

Min2(a, b) == IF a <= b THEN a ELSE b

BranchRefChoices(n) ==
    { s \in SeqsUpTo({ [name |-> r.name, tp |-> r.tp, target |-> t] :
                          r \in BranchRefNames, t \in 1..MissingOid(n) },
                     Min2(MaxBranchRefs, RefBudget(n))) :
        \A i, j \in 1..Len(s) : i < j => s[i].name # s[j].name }

\* An annotated tag of an indexed or cut-off commit, a lightweight tag (no tag
\* object), or a tag whose name is not valid UTF-8, beside the branch
\* references br.
TagRefChoices(n, br) ==
    { s \in SeqsUpTo({ [name |-> TagRefName, valid_utf8 |-> TRUE,
                        annotated |-> TRUE, target_id |-> t] : t \in 1..MissingOid(n) }
                     \cup { [name |-> TagRefName, valid_utf8 |-> TRUE,
                             annotated |-> FALSE, target_id |-> 1],
                            [name |-> TagRefName, valid_utf8 |-> FALSE,
                             annotated |-> FALSE, target_id |-> 1] },
                     Min2(MaxTagRefs, RefBudget(n) - Len(br))) :
        \A i, j \in 1..Len(s) : i < j => s[i].name # s[j].name }

\* The parent lists of the commits i..n-1, as a sequence.
RECURSIVE ParentListsFrom(_, _)
ParentListsFrom(i, n) ==
    IF i >= n THEN {<<>>}
    ELSE { <<p>> \o rest : p \in ParentChoices(i, n), rest \in ParentListsFrom(i + 1, n) }

ParentFunctions(n) ==
    { [ i \in 0..(n - 1) |-> s[i + 1] ] : s \in ParentListsFrom(0, n) }

\* The summary is read for merge commits only.
RECURSIVE SummaryListsFrom(_, _, _)
SummaryListsFrom(i, n, ps) ==
    IF i >= n THEN {<<>>}
    ELSE { <<m>> \o rest :
             m \in (IF Len(ps[i]) < 2 THEN {Some(SummaryNoMatch)} ELSE SummaryChoices),
             rest \in SummaryListsFrom(i + 1, n, ps) }

SummaryFunctions(n, ps) ==
    { [ i \in 0..(n - 1) |-> s[i + 1] ] : s \in SummaryListsFrom(0, n, ps) }

\* The repositories of the model: every walk of up to MaxCommits commits, with
\* up to MaxBranchRefs branch references and up to MaxTagRefs tag references
\* within the reference budget of the walk's length.
IsRepository(rp) ==
    \E n \in 1..MaxCommits :
        \E ps \in ParentFunctions(n) :
            \E sm \in SummaryFunctions(n, ps) :
                \E br \in BranchRefChoices(n) :
                    \E tg \in TagRefChoices(n, br) :
                        rp = [ n |-> n, parents |-> ps, summary |-> sm,
                               branch_refs |-> br, tag_refs |-> tg ]

\* ---------------------------------------------------------------- records
\* CommitInfo::new
CommitInfoNew(rp, i) ==
    [ oid |-> OidOf(i),
      is_merge |-> Len(rp.parents[i]) > 1,
      parents |-> << IF Len(rp.parents[i]) >= 1 THEN Some(rp.parents[i][1]) ELSE None,
                     IF Len(rp.parents[i]) >= 2 THEN Some(rp.parents[i][2]) ELSE None >>,
      children |-> <<>>,
      branches |-> <<>>,
      tags |-> <<>>,
      branch_trace |-> None ]

\* indices.get(oid) over the commit list
IndicesGet(cs, oid) ==
    IF \E i \in DOMAIN cs : cs[i].oid = oid
    THEN Some(CHOOSE i \in DOMAIN cs : cs[i].oid = oid)
    ELSE None

\* What commit idx pushes onto the children of the commit with id par_oid: its
\* own id once per parent slot that names par_oid.
ChildPushes(cs, idx, par_oid) ==
    (IF cs[idx].parents[1] = Some(par_oid) THEN <<cs[idx].oid>> ELSE <<>>)
    \o (IF cs[idx].parents[2] = Some(par_oid) THEN <<cs[idx].oid>> ELSE <<>>)

\* The children list of the commit with id par_oid after the commits idx.. have
\* pushed, in index order.
RECURSIVE ChildrenFrom(_, _, _)
ChildrenFrom(cs, par_oid, idx) ==
    IF idx \notin DOMAIN cs THEN <<>>
    ELSE ChildPushes(cs, idx, par_oid) \o ChildrenFrom(cs, par_oid, idx + 1)

\* assign_children: in index order, every commit pushes its id onto the children
\* of the indexed commit each of its two parent slots names; a merge whose two
\* slots name the same commit is pushed twice.
AssignChildren(cs) ==
    [ j \in DOMAIN cs |-> [ cs[j] EXCEPT !.children = ChildrenFrom(cs, cs[j].oid, 0) ] ]

\* BranchVis::new
BranchVisNew(order_group, term_color, svg_color) ==
    [ order_group |-> order_group,
      target_order_group |-> None,
      source_order_group |-> None,
      term_color |-> term_color,
      svg_color |-> svg_color,
      column |-> None ]

\* BranchInfo::new
BranchInfoNew(target, merge_target, name, persistence, is_remote, is_merged, is_tag, visual, end_index) ==
    [ target |-> target,
      merge_target |-> merge_target,
      name |-> name,
      persistence |-> persistence,
      is_remote |-> is_remote,
      is_merged |-> is_merged,
      is_tag |-> is_tag,
      visual |-> visual,
      range |-> <<end_index, None>> ]

\* ---------------------------------------------------------------- extract_branches
\* Variant: the key (persistence, is_merged).
SortKeyLessSwapped(a, b) ==
    \/ a.persistence < b.persistence
    \/ (a.persistence = b.persistence /\ ~a.is_merged /\ b.is_merged)

\* The key of the candidate sort: (persistence, !is_merged), compared as tuples
\* with false < true.
SortKeyLess(a, b) ==
    \/ a.persistence < b.persistence
    \/ (a.persistence = b.persistence /\ a.is_merged /\ ~b.is_merged)

\* sort_by_cached_key is stable: an element goes after every element that does
\* not compare greater.
RECURSIVE SortFrom(_, _, _)
SortFrom(s, k, acc) ==
    IF k > Len(s) THEN acc
    ELSE LET x == s[k]
             pos == Cardinality({ i \in 1..Len(acc) : ~SortKeyLess(x, acc[i]) })
         IN  SortFrom(s, k + 1,
                      SubSeq(acc, 1, pos) \o <<x>> \o SubSeq(acc, pos + 1, Len(acc)))

SortByCachedKey(s) == SortFrom(s, 1, <<>>)

\* The candidate of a branch reference; counter is the colour counter after its increment.
RealBranch(cs, ref, counter) ==
    LET name == StripComponents(ref.name, 2)
    IN  BranchInfoNew(
            ref.target, None, name,
            BranchOrder(name, Settings.persistence) % 256,
            ref.tp = "Remote", FALSE, FALSE,
            BranchVisNew(BranchOrder(name, Settings.order),
                         BranchColor(name, Settings.terminal_colors,
                                     Settings.terminal_colors_unknown, counter),
                         BranchColor(name, Settings.svg_colors,
                                     Settings.svg_colors_unknown, counter)),
            IndicesGet(cs, ref.target))

\* The candidate derived from the merge commit at idx.
MergedBranch(rp, cs, idx, counter) ==
    LET parsed == ParseMergeSummary(Unwrap(rp.summary[idx]), Settings.merge_patterns)
        branch_name == IF IsSome(parsed) THEN Unwrap(parsed) ELSE NameUnknown
    IN  BranchInfoNew(
            rp.parents[idx][2], Some(cs[idx].oid), branch_name,
            BranchOrder(branch_name, Settings.persistence) % 256,
            FALSE, TRUE, FALSE,
            BranchVisNew(BranchOrder(branch_name, Settings.order),
                         BranchColor(branch_name, Settings.terminal_colors,
                                     Settings.terminal_colors_unknown, counter),
                         BranchColor(branch_name, Settings.svg_colors,
                                     Settings.svg_colors_unknown, counter)),
            Some(idx + 1))

\* The candidate of an annotated tag of an indexed commit; name is the value of
\* from_utf8(&name[5..]), which exists when the tag's name is valid UTF-8 (see
\* TagNameInvalid for the other case).
TagBranch(cs, tag, counter) ==
    LET name == StripComponents(tag.name, 1)
    IN  BranchInfoNew(
            tag.target_id, None, name,
            ((Len(Settings.persistence) % 256) + 1) % 256,
            FALSE, FALSE, TRUE,
            BranchVisNew(BranchOrder(name, Settings.order),
                         BranchColor(name, Settings.terminal_colors,
                                     Settings.terminal_colors_unknown, counter),
                         BranchColor(name, Settings.svg_colors,
                                     Settings.svg_colors_unknown, counter)),
            IndicesGet(cs, tag.target_id))

\* The candidates before the sort, in insertion order: branch references, then
\* the merge commits in walk order.
ValidBranches(rp, cs) ==
    LET refs == SelectSeq(rp.branch_refs,
                          LAMBDA r : Settings.include_remote \/ r.tp = "Local")
        merges == SetToSeq({ i \in DOMAIN cs : cs[i].is_merge /\ IsSome(rp.summary[i]) })
    IN  [ i \in 1..Len(refs) |-> RealBranch(cs, refs[i], i) ]
        \o [ j \in 1..Len(merges) |-> MergedBranch(rp, cs, merges[j], Len(refs) + j) ]

\* std::str::from_utf8(&name[5..]) fails for one of the listed tags.
TagNameInvalid(rp) == \E k \in 1..Len(rp.tag_refs) : ~rp.tag_refs[k].valid_utf8

\* What extract_branches returns when every tag name is valid UTF-8.
ExtractBranches(rp, cs) ==
    LET valid == ValidBranches(rp, cs)
        tags == SelectSeq(rp.tag_refs,
                          LAMBDA t : t.annotated /\ IsSome(IndicesGet(cs, t.target_id)))
    IN  SortByCachedKey(valid)
        \o [ k \in 1..Len(tags) |-> TagBranch(cs, tags[k], Len(valid) + k) ]

\* ---------------------------------------------------------------- trace_branch
\* Branch indices are 0-based as in the code; the branch list is a sequence.
BranchAt(bs, i) == bs[i + 1]

\* The test that sends the walk into the same-name arm: equal names and the
\* owner's range.0 not before the walking candidate's range.0.
SameNameArm(new_branch, old_branch) ==
    /\ new_branch.name = old_branch.name
    /\ UnwrapOr(old_branch.range[1], 0) >= UnwrapOr(new_branch.range[1], 0)

\* The owner's range after the same-name arm met it at index.
OwnerRangeAt(old_range, index) ==
    IF IsSome(old_range[2]) /\ index > Unwrap(old_range[2])
    THEN <<None, None>>
    ELSE <<Some(index), old_range[2]>>

\* start_index when the walk breaks at the owned commit at index (an i32).
BreakStartIndex(cs, prev_index, index) ==
    IF IsNone(prev_index) THEN index - 1
    ELSE IF cs[Unwrap(prev_index)].is_merge
         THEN LET siblings == { Unwrap(IndicesGet(cs, cs[index].children[k])) :
                                  k \in { x \in 1..Len(cs[index].children) :
                                            cs[index].children[x] # cs[index].oid } }
              IN  CHOOSE t \in siblings \cup {Unwrap(prev_index)} :
                      \A u \in siblings \cup {Unwrap(prev_index)} : t >= u
         ELSE index - 1

\* The remote-tracking branch of the owner takes the owner's colours.
CopyColors(branch, old_branch) ==
    IF StartsWithOrigin(branch.name) /\ StripComponents(branch.name, 1) = old_branch.name
    THEN [ branch EXCEPT !.visual.term_color = old_branch.visual.term_color,
                         !.visual.svg_color = old_branch.visual.svg_color ]
    ELSE branch

\* Variant: a start_index before the range-start hint does not invalidate the range.
ReconciledRangeNoInvalidate(range, start_index) ==
    IF IsSome(range[1])
    THEN IF IsSome(start_index)
         THEN <<range[1], Some(Unwrap(start_index))>>
         ELSE <<range[1], None>>
    ELSE <<range[1], start_index>>

\* The candidate's range once the walk has ended with start_index.
ReconciledRange(range, start_index) ==
    IF IsSome(range[1])
    THEN IF IsSome(start_index)
         THEN IF Unwrap(start_index) < Unwrap(range[1])
              THEN <<None, None>>
              ELSE <<range[1], Some(Unwrap(start_index))>>
         ELSE <<range[1], None>>
    ELSE <<range[1], start_index>>

\* Variant: the root is treated like a break before it.
RootStartIndexBefore(index) == index - 1

\* start_index when the walk has claimed a parentless commit at index.
RootStartIndex(index) == index

\* The while loop of trace_branch. w holds the loop's variables; w.exit is "run"
\* while it iterates, "end" after a break or when curr_oid is not indexed, "err"
\* when find_commit failed. lost is the set of ids whose lookup fails.
RECURSIVE TraceLoop(_, _, _)
TraceLoop(w, branch_index, lost) ==
    LET found == IndicesGet(w.commits, w.curr_oid)
    IN  IF IsNone(found) THEN [ w EXCEPT !.exit = "end" ]
        ELSE
        LET index == Unwrap(found)
            info == w.commits[index]
            owned == IsSome(info.branch_trace)
            old_trace == Unwrap(info.branch_trace)
            new_branch == BranchAt(w.branches, branch_index)
            same == owned /\ SameNameArm(new_branch, BranchAt(w.branches, old_trace))
        IN  IF owned /\ ~same
            THEN [ w EXCEPT
                     !.branches[branch_index + 1] =
                         CopyColors(new_branch, BranchAt(w.branches, old_trace)),
                     !.start_index = Some(BreakStartIndex(w.commits, w.prev_index, index)),
                     !.exit = "end" ]
            ELSE
            LET branches1 ==
                    IF same
                    THEN [ w.branches EXCEPT ![old_trace + 1].range =
                             OwnerRangeAt(BranchAt(w.branches, old_trace).range, index) ]
                    ELSE w.branches
                commits1 == [ w.commits EXCEPT ![index].branch_trace = Some(branch_index) ]
                w1 == [ w EXCEPT !.branches = branches1, !.commits = commits1,
                                 !.any_assigned = TRUE,
                                 !.visited = Append(w.visited, index) ]
            IN  IF w.curr_oid \in lost
                THEN [ w1 EXCEPT !.exit = "err" ]
                ELSE IF IsNone(info.parents[1])
                     THEN [ w1 EXCEPT !.start_index = Some(RootStartIndex(index)),
                                      !.exit = "end" ]
                     ELSE TraceLoop([ w1 EXCEPT !.prev_index = Some(index),
                                                !.curr_oid = Unwrap(info.parents[1]) ],
                                    branch_index, lost)

\* trace_branch: [commits, branches, ok, any_assigned, visited]; ok is FALSE for
\* Err, and visited lists the indices the walk took ownership of, in order.
TraceBranch(cs, bs, oid, branch_index, lost) ==
    LET w == TraceLoop([ commits |-> cs, branches |-> bs, curr_oid |-> oid,
                         prev_index |-> None, start_index |-> None,
                         any_assigned |-> FALSE, visited |-> <<>>, exit |-> "run" ],
                       branch_index, lost)
    IN  IF w.exit = "err"
        THEN [ commits |-> w.commits, branches |-> w.branches, ok |-> FALSE,
               any_assigned |-> FALSE, visited |-> w.visited ]
        ELSE [ commits |-> w.commits,
               branches |-> [ w.branches EXCEPT ![branch_index + 1].range =
                                ReconciledRange(BranchAt(w.branches, branch_index).range,
                                                w.start_index) ],
               ok |-> TRUE, any_assigned |-> w.any_assigned, visited |-> w.visited ]

\* ---------------------------------------------------------------- assign_branches
\* The closure of the index_map construction for candidate old_idx: the target's
\* terminating lists, the trace, and the candidate's provisional new index
\* (branch_idx counts the candidates kept so far). A failed trace counts as
\* "nothing assigned" (unwrap_or(false)).
KeepAfterTrace(any_assigned, is_merged) == any_assigned \/ ~is_merged

PushTerminating(cs, idx, branch, old_idx) ==
    IF branch.is_tag
    THEN [ cs EXCEPT ![idx].tags = Append(cs[idx].tags, old_idx) ]
    ELSE IF ~branch.is_merged
         THEN [ cs EXCEPT ![idx].branches = Append(cs[idx].branches, old_idx) ]
         ELSE cs

\* Number of candidates already given a provisional index.
BranchIdx(imap) == Cardinality({ i \in 1..Len(imap) : IsSome(imap[i]) })

\* commit_count
CommitCount(cs, old_idx) ==
    Cardinality({ i \in DOMAIN cs : cs[i].branch_trace = Some(old_idx) })

\* The candidates the second pass over index_map drops.
Skipped(cs, bs, imap, idx) ==
    /\ IsSome(imap[idx + 1])
    /\ CommitCount(cs, idx) = 0
    /\ BranchAt(bs, idx).is_merged
    /\ ~BranchAt(bs, idx).is_tag

\* index_map after the second pass: survivors renumbered past the skipped ones.
FinalIndexMap(cs, bs, imap) ==
    [ k \in 1..Len(imap) |->
        IF IsNone(imap[k]) \/ Skipped(cs, bs, imap, k - 1) THEN None
        ELSE Some(Unwrap(imap[k])
                  - Cardinality({ j \in 0..(k - 2) : Skipped(cs, bs, imap, j) })) ]

\* The rewrite of owner and terminating lists needs index_map[..].unwrap() of
\* every listed candidate of every owned commit.
RemapPanics(cs, fmap) ==
    \E i \in DOMAIN cs :
        /\ IsSome(cs[i].branch_trace)
        /\ \/ \E k \in 1..Len(cs[i].branches) : IsNone(fmap[cs[i].branches[k] + 1])
           \/ \E k \in 1..Len(cs[i].tags) : IsNone(fmap[cs[i].tags[k] + 1])

RemapCommits(cs, fmap) ==
    [ i \in DOMAIN cs |->
        IF IsSome(cs[i].branch_trace)
        THEN [ cs[i] EXCEPT
                 !.branch_trace = fmap[Unwrap(cs[i].branch_trace) + 1],
                 !.branches = [ k \in 1..Len(cs[i].branches) |->
                                  Unwrap(fmap[cs[i].branches[k] + 1]) ],
                 !.tags = [ k \in 1..Len(cs[i].tags) |-> Unwrap(fmap[cs[i].tags[k] + 1]) ] ]
        ELSE cs[i] ]

\* The candidates whose index_map entry is present, in order.
RECURSIVE KeepMapped(_, _, _)
KeepMapped(bs, fmap, k) ==
    IF k > Len(bs) THEN <<>>
    ELSE (IF IsSome(fmap[k]) THEN <<bs[k]>> ELSE <<>>) \o KeepMapped(bs, fmap, k + 1)

\* ---------------------------------------------------------------- assign_sources_targets
\* branch_commits[branch_idx]: the indices of the branch's commits, ascending.
BranchCommits(cs, branch_idx) ==
    SetToSeq({ i \in DOMAIN cs : cs[i].branch_trace = Some(branch_idx) })

\* The order group of the owner of the commit with this id, when the id is
\* indexed, owned, and owned by another branch than branch_idx.
OtherOwnerGroup(cs, bs, oid_opt, branch_idx) ==
    IF IsNone(oid_opt) THEN None
    ELSE LET found == IndicesGet(cs, Unwrap(oid_opt))
         IN  IF IsNone(found) THEN None
             ELSE LET tr == cs[Unwrap(found)].branch_trace
                  IN  IF IsNone(tr) \/ Unwrap(tr) = branch_idx THEN None
                      ELSE Some(BranchAt(bs, Unwrap(tr)).visual.order_group)

\* find_map over a list of options of ids: the first present result.
RECURSIVE FirstOtherOwnerGroup(_, _, _, _, _)
FirstOtherOwnerGroup(cs, bs, oids, branch_idx, k) ==
    IF k > Len(oids) THEN None
    ELSE LET g == OtherOwnerGroup(cs, bs, oids[k], branch_idx)
         IN  IF IsSome(g) THEN g
             ELSE FirstOtherOwnerGroup(cs, bs, oids, branch_idx, k + 1)

\* source_group: the branch's commits are scanned from the last of
\* branch_commits (.iter().rev()) to the first.
RECURSIVE SourceScan(_, _, _, _, _)
SourceScan(cs, bs, own, branch_idx, k) ==
    IF k < 1 THEN None
    ELSE LET g == FirstOtherOwnerGroup(cs, bs, cs[own[k]].parents, branch_idx, 1)
         IN  IF IsSome(g) THEN g ELSE SourceScan(cs, bs, own, branch_idx, k - 1)

\* Variant: the scan without .rev(), from the first of branch_commits to the last.
RECURSIVE SourceScanForward(_, _, _, _, _)
SourceScanForward(cs, bs, own, branch_idx, k) ==
    IF k > Len(own) THEN None
    ELSE LET g == FirstOtherOwnerGroup(cs, bs, cs[own[k]].parents, branch_idx, 1)
         IN  IF IsSome(g) THEN g ELSE SourceScanForward(cs, bs, own, branch_idx, k + 1)

SourceGroupForward(cs, bs, branch_idx) ==
    SourceScanForward(cs, bs, BranchCommits(cs, branch_idx), branch_idx, 1)

SourceGroup(cs, bs, branch_idx) ==
    LET own == BranchCommits(cs, branch_idx)
    IN  SourceScan(cs, bs, own, branch_idx, Len(own))

\* Variant: the children of the last of branch_commits (the oldest commit).
TargetGroupOldest(cs, bs, branch_idx) ==
    LET via_merge == OtherOwnerGroup(cs, bs, BranchAt(bs, branch_idx).merge_target, branch_idx)
        own == BranchCommits(cs, branch_idx)
    IN  IF IsSome(via_merge) THEN via_merge
        ELSE IF Len(own) = 0 THEN None
             ELSE LET kids == cs[own[Len(own)]].children
                  IN  FirstOtherOwnerGroup(cs, bs, [ k \in 1..Len(kids) |-> Some(kids[k]) ],
                                           branch_idx, 1)

\* target_group: the owner of the merge target, or else of a child of the first
\* of branch_commits.
TargetGroup(cs, bs, branch_idx) ==
    LET via_merge == OtherOwnerGroup(cs, bs, BranchAt(bs, branch_idx).merge_target, branch_idx)
        own == BranchCommits(cs, branch_idx)
    IN  IF IsSome(via_merge) THEN via_merge
        ELSE IF Len(own) = 0 THEN None
             ELSE LET kids == cs[own[1]].children
                  IN  FirstOtherOwnerGroup(cs, bs, [ k \in 1..Len(kids) |-> Some(kids[k]) ],
                                           branch_idx, 1)

AssignSourcesTargets(cs, bs) ==
    [ k \in 1..Len(bs) |->
        [ bs[k] EXCEPT !.visual.source_order_group = SourceGroup(cs, bs, k - 1),
                       !.visual.target_order_group = TargetGroup(cs, bs, k - 1) ] ]

\* ---------------------------------------------------------------- assign_branch_columns
\* default_end: commits.len().saturating_sub(1)
DefaultEnd(n_commits) == IF n_commits = 0 THEN 0 ELSE n_commits - 1

\* An entry of branches_sort: (idx, start, end, group_hint, length_key, start_key).
SortEntry(bs, n_commits, idx, shortest_first, forward) ==
    LET br == BranchAt(bs, idx)
        default_end == DefaultEnd(n_commits)
        start == UnwrapOr(br.range[1], 0)
        end == UnwrapOr(br.range[2], default_end)
        source_group == UnwrapOr(br.visual.source_order_group, br.visual.order_group)
        target_group == UnwrapOr(br.visual.target_order_group, br.visual.order_group)
    IN  [ idx |-> idx, start |-> start, end |-> end,
          group_hint |-> Max2(source_group, target_group),
          length_key |-> (end - start) * (IF shortest_first THEN 1 ELSE -1),
          start_key |-> start * (IF forward THEN 1 ELSE -1) ]

\* (entry.3, entry.4, entry.5) compared as tuples
EntryKeyLess(a, b) ==
    \/ a.group_hint < b.group_hint
    \/ (a.group_hint = b.group_hint /\ a.length_key < b.length_key)
    \/ (a.group_hint = b.group_hint /\ a.length_key = b.length_key
        /\ a.start_key < b.start_key)

RECURSIVE SortEntriesFrom(_, _, _)
SortEntriesFrom(s, k, acc) ==
    IF k > Len(s) THEN acc
    ELSE LET x == s[k]
             pos == Cardinality({ i \in 1..Len(acc) : ~EntryKeyLess(x, acc[i]) })
         IN  SortEntriesFrom(s, k + 1,
                             SubSeq(acc, 1, pos) \o <<x>> \o SubSeq(acc, pos + 1, Len(acc)))

BranchesSort(bs, n_commits, shortest_first, forward) ==
    LET ranged == SetToSeq({ i \in 0..(Len(bs) - 1) :
                               ~(IsNone(BranchAt(bs, i).range[1])
                                 /\ IsNone(BranchAt(bs, i).range[2])) })
    IN  SortEntriesFrom([ k \in 1..Len(ranged) |->
                            SortEntry(bs, n_commits, ranged[k], shortest_first, forward) ],
                        1, <<>>)

\* Variant: intervals that only touch do not conflict.
IntervalConflictStrict(column_occ, start, end) ==
    \E k \in 1..Len(column_occ) : start < column_occ[k][2] /\ end > column_occ[k][1]

\* An occupied interval of the column overlaps [start, end].
IntervalConflict(column_occ, start, end) ==
    \E k \in 1..Len(column_occ) : start <= column_occ[k][2] /\ end >= column_occ[k][1]

\* Variant: the owner of the merge-target commit never blocks a column.
ConflictColumnIgnored(cs, bs, merge_target, branch_group) == None

\* The column, if any, that the owner of the merge-target commit holds in branch_group.
ConflictColumn(cs, bs, merge_target, branch_group) ==
    IF IsNone(merge_target) THEN None
    ELSE LET found == IndicesGet(cs, Unwrap(merge_target))
         IN  IF IsNone(found) THEN None
             ELSE LET tr == cs[Unwrap(found)].branch_trace
                  IN  IF IsNone(tr) THEN None
                      ELSE IF BranchAt(bs, Unwrap(tr)).visual.order_group = branch_group
                           THEN BranchAt(bs, Unwrap(tr)).visual.column
                           ELSE None

\* Column i (0-based) of the group does not qualify for the branch.
ColumnConflict(cs, bs, group_occ, i, entry) ==
    \/ IntervalConflict(group_occ[i + 1], entry.start, entry.end)
    \/ ConflictColumn(cs, bs, BranchAt(bs, entry.idx).merge_target,
                      BranchAt(bs, entry.idx).visual.order_group) = Some(i)

\* Variant: the first column is reused whenever the group has a column.
SelectedColumnFirst(cs, bs, group_occ, entry) ==
    IF group_occ = <<>> THEN Len(group_occ) ELSE 0

SelectedColumn(cs, bs, group_occ, entry) ==
    LET free == { i \in 0..(Len(group_occ) - 1) : ~ColumnConflict(cs, bs, group_occ, i, entry) }
    IN  IF free = {} THEN Len(group_occ)
        ELSE CHOOSE i \in free : \A j \in free : i <= j

\* The allocation loop over branches_sort; st = [branches, occupied].
RECURSIVE AllocateFrom(_, _, _, _)
AllocateFrom(cs, st, sorted, k) ==
    IF k > Len(sorted) THEN st
    ELSE LET entry == sorted[k]
             branch_group == BranchAt(st.branches, entry.idx).visual.order_group
             group_occ == st.occupied[branch_group + 1]
             selected_column == SelectedColumn(cs, st.branches, group_occ, entry)
             grown == IF selected_column = Len(group_occ)
                      THEN Append(group_occ, <<>>) ELSE group_occ
             group_occ1 == [ grown EXCEPT ![selected_column + 1] =
                               Append(grown[selected_column + 1], <<entry.start, entry.end>>) ]
         IN  AllocateFrom(cs,
                 [ branches |-> [ st.branches EXCEPT
                                    ![entry.idx + 1].visual.column = Some(selected_column) ],
                   occupied |-> [ st.occupied EXCEPT ![branch_group + 1] = group_occ1 ] ],
                 sorted, k + 1)

\* group_offset[g]: the number of columns of the groups 0..g (0-based g).
RECURSIVE GroupOffset(_, _)
GroupOffset(occupied, g) ==
    IF g < 0 THEN 0 ELSE Len(occupied[g + 1]) + GroupOffset(occupied, g - 1)

ColumnOffset(occupied, order_group) ==
    IF order_group = 0 THEN 0 ELSE GroupOffset(occupied, order_group - 1)

AssignBranchColumns(cs, bs, shortest_first, forward) ==
    LET n_commits == Cardinality(DOMAIN cs)
        st == AllocateFrom(cs,
                  [ branches |-> bs,
                    occupied |-> [ g \in 1..(Len(Settings.order) + 1) |-> <<>> ] ],
                  BranchesSort(bs, n_commits, shortest_first, forward), 1)
    IN  [ k \in 1..Len(bs) |->
            IF IsSome(st.branches[k].visual.column)
            THEN [ st.branches[k] EXCEPT !.visual.column =
                     Some(Unwrap(st.branches[k].visual.column)
                          + ColumnOffset(st.occupied, st.branches[k].visual.order_group)) ]
            ELSE st.branches[k] ]

\* ---------------------------------------------------------------- GitGraph::new, the tail
\* filtered_indices.get(oid) for the commit at idx: its position among the
\* owned commits, None when it is not owned.
FilteredIndex(cs, idx) ==
    IF IsSome(cs[idx].branch_trace)
    THEN Some(Cardinality({ j \in DOMAIN cs : j < idx /\ IsSome(cs[j].branch_trace) }))
    ELSE None

\* The orders in which a hash map can hand out the entries of `indices`: every
\* enumeration of the keys.
RECURSIVE IterationOrders(_)
IterationOrders(S) ==
    IF S = {} THEN {<<>>}
    ELSE UNION { { <<x>> \o rest : rest \in IterationOrders(S \ {x}) } : x \in S }

\* index_map: the entries (index, filtered_indices.get(oid)) collected into a
\* hash map while `indices` is iterated in the given order.
IndexMap(cs, order) ==
    [ idx \in { order[k] : k \in 1..Len(order) } |-> FilteredIndex(cs, idx) ]

\* A start bound advances to the next owned commit; [ok |-> FALSE] when the
\* lookup leaves the keys of index_map.
RECURSIVE ReindexStart(_, _)
ReindexStart(imap, start_idx) ==
    IF start_idx \notin DOMAIN imap THEN [ ok |-> FALSE, idx |-> 0 ]
    ELSE IF IsSome(imap[start_idx])
         THEN [ ok |-> TRUE, idx |-> Unwrap(imap[start_idx]) ]
         ELSE ReindexStart(imap, start_idx + 1)

\* An end bound retreats to the previous owned commit.
RECURSIVE ReindexEnd(_, _)
ReindexEnd(imap, end_idx) ==
    IF end_idx \notin DOMAIN imap THEN [ ok |-> FALSE, idx |-> 0 ]
    ELSE IF IsSome(imap[end_idx])
         THEN [ ok |-> TRUE, idx |-> Unwrap(imap[end_idx]) ]
         ELSE ReindexEnd(imap, end_idx - 1)

ReindexPanics(imap, bs) ==
    \E k \in 1..Len(bs) :
        \/ IsSome(bs[k].range[1]) /\ ~ReindexStart(imap, Unwrap(bs[k].range[1])).ok
        \/ IsSome(bs[k].range[2]) /\ ~ReindexEnd(imap, Unwrap(bs[k].range[2])).ok

ReindexRanges(imap, bs) ==
    [ k \in 1..Len(bs) |->
        [ bs[k] EXCEPT !.range =
            << IF IsSome(bs[k].range[1])
               THEN Some(ReindexStart(imap, Unwrap(bs[k].range[1])).idx) ELSE None,
               IF IsSome(bs[k].range[2])
               THEN Some(ReindexEnd(imap, Unwrap(bs[k].range[2])).idx) ELSE None >> ] ]

\* Variant: no commit is filtered out.
FilteredCommitsKeepAll(cs) == cs

\* filtered_commits
FilteredCommits(cs) ==
    LET kept == SetToSeq({ i \in DOMAIN cs : IsSome(cs[i].branch_trace) })
    IN  [ k \in 0..(Len(kept) - 1) |-> cs[kept[k + 1]] ]

\* ---------------------------------------------------------------- state
VARIABLES
    repo,             \* the repository and what the revision walk delivered
    pc,               \* the stage GitGraph::new is about to run
    commits,          \* commits (filtered_commits once construction is done)
    branches,         \* the candidates, then all_branches
    index_map,        \* assign_branches' index_map, one entry per traced candidate
    lookup_failures,  \* object lookups that have failed so far
    access_errors,    \* enumerations (walk items, reference listings) that returned an error
    result            \* "none" while running, then "Ok", "Err" or "Panic"

vars == <<repo, pc, commits, branches, index_map, lookup_failures, access_errors, result>>

\* The state when the revision walk starts: no commit is indexed yet.
Init ==
    /\ IsRepository(repo)
    /\ commits = <<>>
    /\ pc = "walk"
    /\ branches = <<>>
    /\ index_map = <<>>
    /\ lookup_failures = 0
    /\ access_errors = 0
    /\ result = "none"

\* The revision walk looks every commit up and builds the commit list; then
\* assign_children runs.
WalkOk ==
    /\ pc = "walk"
    /\ commits' = AssignChildren([ i \in 0..(repo.n - 1) |-> CommitInfoNew(repo, i) ])
    /\ pc' = "extract_branches"
    /\ UNCHANGED <<repo, access_errors, branches, index_map, lookup_failures, result>>

\* `oid.map_err(...)?`: an item of the walk that is an error makes GitGraph::new
\* return it, whichever item it is and however many commits were indexed before.
WalkErr ==
    /\ pc = "walk"
    /\ \E failed \in 0..(repo.n - 1) :
           /\ access_errors' = access_errors + 1
           /\ result' = "Err"
           /\ pc' = "done"
    /\ UNCHANGED <<repo, commits, branches, index_map, lookup_failures>>

\* find_commit(oid).unwrap(): a lookup of the walk that fails makes GitGraph::new
\* panic, whichever commit it is.
WalkPanic ==
    /\ pc = "walk"
    /\ lookup_failures < MaxLookupFailures
    /\ \E failed \in 0..(repo.n - 1) :
           /\ lookup_failures' = lookup_failures + 1
           /\ result' = "Panic"
           /\ pc' = "done"
    /\ UNCHANGED <<repo, access_errors, commits, branches, index_map>>

\* extract_branches when every lookup and listing succeeds: it returns the
\* sorted candidates and the tags, or, with `?`, the error of a tag name that is
\* not valid UTF-8.
ExtractBranchesReturn ==
    /\ pc = "extract_branches"
    /\ IF TagNameInvalid(repo)
       THEN /\ result' = "Err"
            /\ pc' = "done"
            /\ UNCHANGED branches
       ELSE /\ branches' = ExtractBranches(repo, commits)
            /\ pc' = "trace"
            /\ UNCHANGED result
    /\ UNCHANGED <<repo, access_errors, commits, index_map, lookup_failures>>

\* extract_branches looks every commit up again; a failure is returned with `?`.
ExtractBranchesErr ==
    /\ pc = "extract_branches"
    /\ lookup_failures < MaxLookupFailures
    /\ lookup_failures' = lookup_failures + 1
    /\ result' = "Err"
    /\ pc' = "done"
    /\ UNCHANGED <<repo, access_errors, commits, branches, index_map>>

\* extract_branches lists the branch references and the tags; a listing that
\* returns an error (branches(), one of its items, tag_foreach) is returned with `?`.
ListingErr ==
    /\ pc = "extract_branches"
    /\ access_errors' = access_errors + 1
    /\ result' = "Err"
    /\ pc' = "done"
    /\ UNCHANGED <<repo, commits, branches, index_map, lookup_failures>>

\* One application of the index_map closure: candidate old_idx = Len(index_map).
\* lost is the set of ids whose lookup fails during this trace.
TraceCandidate ==
    /\ pc = "trace"
    /\ Len(index_map) < Len(branches)
    /\ LET old_idx == Len(index_map)
           branch == BranchAt(branches, old_idx)
           found == IndicesGet(commits, branch.target)
       IN  IF IsNone(found)
           THEN /\ index_map' = Append(index_map, None)
                /\ UNCHANGED <<commits, branches, lookup_failures>>
           ELSE LET idx == Unwrap(found)
                    pushed == PushTerminating(commits, idx, branch, old_idx)
                    sound == TraceBranch(pushed, branches, pushed[idx].oid, old_idx, {})
                IN  \E lost \in {{}} \cup
                                { {commits[i].oid} :
                                    i \in { sound.visited[k] :
                                              k \in { x \in 1..Len(sound.visited) :
                                                        lookup_failures < MaxLookupFailures } } } :
                        LET tr == TraceBranch(pushed, branches, pushed[idx].oid, old_idx, lost)
                            any_assigned == IF tr.ok THEN tr.any_assigned ELSE FALSE
                        IN  /\ commits' = tr.commits
                            /\ branches' = tr.branches
                            /\ index_map' = Append(index_map,
                                   IF KeepAfterTrace(any_assigned, branch.is_merged)
                                   THEN Some(BranchIdx(index_map)) ELSE None)
                            /\ lookup_failures' = lookup_failures + (IF tr.ok THEN 0 ELSE 1)
    /\ UNCHANGED <<repo, access_errors, pc, result>>

\* The rest of assign_branches once every candidate is traced: count, skip,
\* renumber, rewrite the commits, filter the candidates.
Consolidate ==
    /\ pc = "trace"
    /\ Len(index_map) = Len(branches)
    /\ LET fmap == FinalIndexMap(commits, branches, index_map)
       IN  IF RemapPanics(commits, fmap)
           THEN /\ result' = "Panic"
                /\ pc' = "done"
                /\ UNCHANGED <<commits, branches, index_map>>
           ELSE /\ index_map' = fmap
                /\ commits' = RemapCommits(commits, fmap)
                /\ branches' = KeepMapped(branches, fmap, 1)
                /\ pc' = "assign_sources_targets"
                /\ UNCHANGED result
    /\ UNCHANGED <<repo, access_errors, lookup_failures>>

ResolveSourcesTargets ==
    /\ pc = "assign_sources_targets"
    /\ branches' = AssignSourcesTargets(commits, branches)
    /\ pc' = "assign_branch_columns"
    /\ UNCHANGED <<repo, access_errors, commits, index_map, lookup_failures, result>>

\* settings.branch_order: ShortestFirst(forward) or LongestFirst(forward)
AllocateColumns ==
    /\ pc = "assign_branch_columns"
    /\ \E shortest_first \in BOOLEAN, forward \in BOOLEAN :
           branches' = AssignBranchColumns(commits, branches, shortest_first, forward)
    /\ pc' = "filter"
    /\ UNCHANGED <<repo, access_errors, commits, index_map, lookup_failures, result>>

\* The tail of GitGraph::new for an index_map.
FinishWith(imap) ==
    IF ReindexPanics(imap, branches)
    THEN /\ result' = "Panic"
         /\ UNCHANGED <<commits, branches>>
    ELSE /\ result' = "Ok"
         /\ commits' = FilteredCommits(commits)
         /\ branches' = ReindexRanges(imap, branches)

\* The owned commits are kept and every range bound is re-expressed against
\* them; index_map is built in whatever order the hash map iterates.
Finish ==
    /\ pc = "filter"
    /\ \E order \in IterationOrders(DOMAIN commits) :
           FinishWith(IndexMap(commits, order))
    /\ pc' = "done"
    /\ UNCHANGED <<repo, access_errors, index_map, lookup_failures>>

Next ==
    \/ WalkOk
    \/ WalkErr
    \/ WalkPanic
    \/ ExtractBranchesReturn
    \/ ExtractBranchesErr
    \/ ListingErr
    \/ TraceCandidate
    \/ Consolidate
    \/ ResolveSourcesTargets
    \/ AllocateColumns
    \/ Finish

Spec == Init /\ [][Next]_vars

\* A history whose merges join two different commits of the walk and in which
\* only the last commit of the walk has its parent outside the walk.
IsPlainHistory(n, ps) ==
    \A i \in 0..(n - 1) :
        /\ \A k \in 1..Len(ps[i]) : ps[i][k] = MissingOid(n) => (i = n - 1 /\ Len(ps[i]) = 1)
        /\ Len(ps[i]) = 2 => ps[i][1] # ps[i][2]

\* The repositories with the local branches m and f on a plain history of
\* TwoBranchCommits commits: the two-branch histories that Spec's reference
\* budget leaves out.
IsTwoBranchRepository(rp) ==
    \E ps \in { f \in ParentFunctions(TwoBranchCommits) : IsPlainHistory(TwoBranchCommits, f) } :
        \E sm \in SummaryFunctions(TwoBranchCommits, ps) :
            \E tm, tf \in 1..MissingOid(TwoBranchCommits) :
                rp = [ n |-> TwoBranchCommits, parents |-> ps, summary |-> sm,
                       branch_refs |->
                           << [name |-> <<"refs", "heads">> \o NameM, tp |-> "Local", target |-> tm],
                              [name |-> <<"refs", "heads">> \o NameF, tp |-> "Local", target |-> tf] >>,
                       tag_refs |-> <<>> ]

InitTwoBranches ==
    /\ IsTwoBranchRepository(repo)
    /\ commits = <<>>
    /\ pc = "walk"
    /\ branches = <<>>
    /\ index_map = <<>>
    /\ lookup_failures = 0
    /\ access_errors = 0
    /\ result = "none"

\* The pipeline over the two-branch histories.
SpecTwoBranches == InitTwoBranches /\ [][Next]_vars

\* The fork/merge history: a linear history A <- B <- C on one branch, a fork at
\* B with one extra commit X, merged back by M with parents (C, X).  The walk
\* delivers M, then C and X in either order, then B, then A; the branch sits on
\* M, the fork's reference on X may still exist, and the merge summary names f
\* or matches no pattern.
ForkMergeWalk == <<"M", "CX", "CX", "B", "A">>

IsForkMergeRepository(rp) ==
    \E c \in {1, 2} :
        \E sm \in SummaryChoices :
            \E main \in BranchRefNames :
                \E fork \in SeqsUpTo(BranchRefNames \ {main}, 1) :
                    \E main_first \in BOOLEAN :
                        LET x == 3 - c
                            main_ref == [name |-> main.name, tp |-> main.tp, target |-> OidOf(0)]
                            fork_refs == [ k \in 1..Len(fork) |->
                                             [name |-> fork[k].name, tp |-> fork[k].tp,
                                              target |-> OidOf(x)] ]
                        IN  /\ (fork = <<>> => main_first)
                            /\ rp = [ n |-> Len(ForkMergeWalk),
                                      parents |-> [ i \in 0..(Len(ForkMergeWalk) - 1) |->
                                                      IF i = 0 THEN <<OidOf(c), OidOf(x)>>
                                                      ELSE IF i \in {1, 2} THEN <<OidOf(3)>>
                                                      ELSE IF i = 3 THEN <<OidOf(4)>>
                                                      ELSE <<>> ],
                                      summary |-> [ i \in 0..(Len(ForkMergeWalk) - 1) |->
                                                      IF i = 0 THEN sm ELSE Some(SummaryNoMatch) ],
                                      branch_refs |-> IF main_first THEN <<main_ref>> \o fork_refs
                                                      ELSE fork_refs \o <<main_ref>>,
                                      tag_refs |-> <<>> ]

InitForkMerge ==
    /\ IsForkMergeRepository(repo)
    /\ commits = <<>>
    /\ pc = "walk"
    /\ branches = <<>>
    /\ index_map = <<>>
    /\ lookup_failures = 0
    /\ access_errors = 0
    /\ result = "none"

\* The pipeline over the fork/merge histories.
SpecForkMerge == InitForkMerge /\ [][Next]_vars

\* ---------------------------------------------------------------- parse_merge_summary alone
\* What one pattern can capture from a summary: no match, one group with a text,
\* one optional group that did not participate, or two groups.
CaptureChoices ==
    {None, Some(<<None>>), Some(<<Some(NameM), Some(NameF)>>)}
        \cup { Some(<<Some(t)>>) : t \in {NameM, NameF} }

\* Summaries, as capture tables over k patterns.
RECURSIVE CaptureTables(_)
CaptureTables(k) ==
    IF k = 0 THEN {<<>>}
    ELSE { Append(t, c) : t \in CaptureTables(k - 1), c \in CaptureChoices }

\* The default patterns, one per supported merge-message form, and the forms
\* naming feature/my-feature: form i is matched by pattern i, whose one group
\* captures the branch name.
FeatureName == <<"feature", "my-feature">>
DefaultPatterns == <<1, 2, 3, 4, 5, 6>>
DefaultForm(i) == [ k \in 1..Len(DefaultPatterns) |->
                      IF k = i THEN Some(<<Some(FeatureName)>>) ELSE None ]
DefaultForms == { DefaultForm(i) : i \in 1..Len(DefaultPatterns) }
UnmatchedForm == [ k \in 1..Len(DefaultPatterns) |-> None ]

\* The calls of parse_merge_summary: a summary and a pattern list.
IsParseInput(rp) ==
    \/ \E k \in 0..MaxPatterns :
           \E t \in CaptureTables(k) :
               \E ps \in SeqsUpTo(1..k, k) :
                   rp = [ summary |-> t, patterns |-> ps ]
    \/ \E t \in DefaultForms \cup {UnmatchedForm} :
           rp = [ summary |-> t, patterns |-> DefaultPatterns ]

InitParse ==
    /\ IsParseInput(repo)
    /\ pc = "parse_merge_summary"
    /\ commits = <<>>
    /\ branches = <<>>
    /\ index_map = <<>>
    /\ lookup_failures = 0
    /\ access_errors = 0
    /\ result = "none"

\* extract_branches names the merge-derived candidate: the parsed name, or
\* "unknown"; result keeps what parse_merge_summary returned.
NameMergedCandidate ==
    /\ pc = "parse_merge_summary"
    /\ result' = ParseMergeSummary(repo.summary, repo.patterns)
    /\ branches' = << UnwrapOr(ParseMergeSummary(repo.summary, repo.patterns), NameUnknown) >>
    /\ pc' = "named"
    /\ UNCHANGED <<repo, access_errors, commits, index_map, lookup_failures>>

SpecParse == InitParse /\ [][NameMergedCandidate]_vars

\* ---------------------------------------------------------------- vocabulary of the properties
AllTraced == pc = "trace" /\ Len(index_map) = Len(branches)
Tracing == pc = "trace" /\ Len(index_map) < Len(branches)
Done == pc = "done" /\ result = "Ok"

\* The indices on the first-parent chain from the commit with this id.
RECURSIVE FirstParentChain(_, _)
FirstParentChain(cs, oid) ==
    LET found == IndicesGet(cs, oid)
    IN  IF IsNone(found) THEN {}
        ELSE {Unwrap(found)} \cup
             (IF IsNone(cs[Unwrap(found)].parents[1]) THEN {}
              ELSE FirstParentChain(cs, Unwrap(cs[Unwrap(found)].parents[1])))

\* The first owned commit a walk from this id meets, going through unowned
\* commits along first parents; None when it meets none.
RECURSIVE FirstOwnedOnWalk(_, _)
FirstOwnedOnWalk(cs, oid) ==
    LET found == IndicesGet(cs, oid)
    IN  IF IsNone(found) THEN None
        ELSE IF IsSome(cs[Unwrap(found)].branch_trace) THEN found
             ELSE IF IsNone(cs[Unwrap(found)].parents[1]) THEN None
                  ELSE FirstOwnedOnWalk(cs, Unwrap(cs[Unwrap(found)].parents[1]))

\* ---------------------------------------------------------------- C1
\* C1: ownership is write-once over the traces: a commit that has an owner keeps
\* that owner through every later trace (stated for constructions in which no
\* lookup has failed).
C1_OwnerWrittenOnce ==
    [][ (pc = "trace" /\ pc' = "trace" /\ lookup_failures' = 0) =>
            \A i \in DOMAIN commits :
                IsSome(commits[i].branch_trace) =>
                    commits'[i].branch_trace = commits[i].branch_trace ]_vars

\* ---------------------------------------------------------------- C2
\* C2: once all candidates are traced, a commit on the first-parent chains of two
\* candidates of different persistence that is owned by one of them is owned by
\* the one of lower persistence rank.
C2_PersistencePrecedence ==
    (AllTraced /\ lookup_failures = 0) =>
        \A a, b \in 0..(Len(branches) - 1) :
            BranchAt(branches, a).persistence < BranchAt(branches, b).persistence =>
                \A c \in FirstParentChain(commits, BranchAt(branches, a).target)
                         \cap FirstParentChain(commits, BranchAt(branches, b).target) :
                    commits[c].branch_trace # Some(b)

\* ---------------------------------------------------------------- C3
BothBounds(br) == IsSome(br.range[1]) /\ IsSome(br.range[2])

\* C3: a range with both bounds has start <= end and both bounds are positions
\* of the commit sequence: of the walk while candidates are traced and laid out,
\* of the filtered output once construction is done.
C3_RangeValid ==
    (pc # "done" \/ result = "Ok") =>
        \A k \in 1..Len(branches) :
            BothBounds(branches[k]) =>
                /\ Unwrap(branches[k].range[1]) <= Unwrap(branches[k].range[2])
                /\ Unwrap(branches[k].range[1]) \in DOMAIN commits
                /\ Unwrap(branches[k].range[2]) \in DOMAIN commits

\* A later trace has moved the start of an earlier candidate's range, and the
\* bounds have been re-expressed against a sequence that lost a commit.
C3_Witness ==
    /\ Done
    /\ Cardinality(DOMAIN commits) < repo.n
    /\ \E k \in 1..Len(branches) :
           /\ BothBounds(branches[k])
           /\ branches[k].is_merged
           /\ \E j \in 1..Len(branches) :
                  j # k /\ branches[j].name = branches[k].name /\ BothBounds(branches[j])

\* ---------------------------------------------------------------- C4
RangeStart(br) == UnwrapOr(br.range[1], 0)
RangeEnd(br, n_commits) == UnwrapOr(br.range[2], DefaultEnd(n_commits))

\* C4: in the result, two distinct branches with the same column have ranges
\* that do not overlap (absent start = 0, absent end = last position).
C4_ColumnNonOverlap ==
    Done =>
        \A j, k \in 1..Len(branches) :
            (j < k /\ IsSome(branches[j].visual.column)
                   /\ branches[j].visual.column = branches[k].visual.column) =>
                LET n == Cardinality(DOMAIN commits)
                IN  \/ RangeEnd(branches[j], n) < RangeStart(branches[k])
                    \/ RangeEnd(branches[k], n) < RangeStart(branches[j])

\* Two branches share a column, and two branches of different position groups
\* have columns.
C4_Witness ==
    /\ Done
    /\ \E j, k \in 1..Len(branches) :
           j < k /\ IsSome(branches[j].visual.column)
                 /\ branches[j].visual.column = branches[k].visual.column
    /\ \E j, k \in 1..Len(branches) :
           /\ branches[j].visual.order_group # branches[k].visual.order_group
           /\ IsSome(branches[j].visual.column) /\ IsSome(branches[k].visual.column)

\* ---------------------------------------------------------------- C5
\* C5: every commit of the output has an owner, and the owner is an entry of
\* the final branch list.
C5_OwnershipComplete ==
    Done =>
        \A i \in DOMAIN commits :
            /\ IsSome(commits[i].branch_trace)
            /\ Unwrap(commits[i].branch_trace) \in 0..(Len(branches) - 1)

\* A commit of the walk had no owner and was dropped, a candidate was dropped
\* before a surviving one, and the output is not empty.
C5_Witness ==
    /\ Done
    /\ Cardinality(DOMAIN commits) < repo.n
    /\ DOMAIN commits # {}
    /\ \E j, k \in 1..Len(index_map) : j < k /\ IsNone(index_map[j]) /\ IsSome(index_map[k])
                                             /\ Unwrap(index_map[k]) \in
                                                  { Unwrap(commits[i].branch_trace) : i \in DOMAIN commits }

\* ---------------------------------------------------------------- C6
\* C6: a failed object lookup during a candidate's trace (the candidates exist,
\* so the walk and extract_branches have succeeded) aborts construction with an
\* error: no stage runs after it and no graph is returned.
C6_LookupFailureFatal ==
    (lookup_failures > 0 /\ branches # <<>>) => (pc = "done" /\ result = "Err")

\* ---------------------------------------------------------------- C7
\* C7 as stated: when the access layer enumerates the walk and the references
\* without an error and no lookup fails, construction returns a graph: it
\* never returns an error, never unwraps a missing index and never looks up
\* outside the index map; every irregular entry is left out instead.
C7_Total ==
    (pc = "done" /\ lookup_failures = 0 /\ access_errors = 0) => result = "Ok"

\* ---------------------------------------------------------------- C8
\* What identifies a candidate through the traces (ranges and colours change).
CandidateKey(br) == <<br.name, br.target, br.merge_target, br.is_merged>>

\* The position of the candidate in the list before the sort.
InsertionPos(br) ==
    LET valid == ValidBranches(repo, commits)
    IN  CHOOSE k \in 1..Len(valid) : CandidateKey(valid[k]) = CandidateKey(br)

\* C8 as stated: the candidates are traced in list order, and in the list the
\* non-tag candidates ascend in persistence with, at equal persistence, every
\* real branch before every merge-derived one.
C8_RealBeforeMerged ==
    pc = "trace" =>
        \A i, j \in 1..Len(branches) :
            (i < j /\ ~branches[i].is_tag /\ ~branches[j].is_tag) =>
                /\ branches[i].persistence <= branches[j].persistence
                /\ branches[i].persistence = branches[j].persistence =>
                       ~(branches[i].is_merged /\ ~branches[j].is_merged)

\* C8 as amended: at equal persistence every merge-derived candidate comes
\* before every real branch; candidates equal on both keys keep insertion order.
C8_MergedBeforeReal ==
    pc = "trace" =>
        \A i, j \in 1..Len(branches) :
            (i < j /\ ~branches[i].is_tag /\ ~branches[j].is_tag) =>
                /\ branches[i].persistence <= branches[j].persistence
                /\ branches[i].persistence = branches[j].persistence =>
                       ~(~branches[i].is_merged /\ branches[j].is_merged)
                /\ (branches[i].persistence = branches[j].persistence
                    /\ branches[i].is_merged = branches[j].is_merged) =>
                       InsertionPos(branches[i]) < InsertionPos(branches[j])

\* All candidates are traced; a real branch and a merge-derived candidate had
\* equal persistence, and two candidates were equal on both keys.
C8_Witness ==
    /\ AllTraced
    /\ \E i, j \in 1..Len(branches) :
           /\ branches[i].persistence = branches[j].persistence
           /\ branches[i].is_merged /\ ~branches[j].is_merged /\ ~branches[j].is_tag
    /\ \E i, j \in 1..Len(branches) :
           /\ i < j
           /\ branches[i].persistence = branches[j].persistence
           /\ branches[i].is_merged /\ branches[j].is_merged

\* ---------------------------------------------------------------- C9
\* The candidate about to be traced meets, as the first owned commit of its
\* walk, a commit whose owner has its name and a range start not before its
\* own range-start hint.
MeetsSameName(c) ==
    /\ Tracing
    /\ LET branch == BranchAt(branches, Len(index_map))
       IN  /\ FirstOwnedOnWalk(commits, branch.target) = Some(c)
           /\ SameNameArm(branch, BranchAt(branches, Unwrap(commits[c].branch_trace)))

\* C9: the walk stops at that commit: the commit and all older commits keep
\* their owners, and the owner changes in its range only, which becomes
\* (this position, its end) or is invalidated when the position is after its end.
C9_SameNameStop ==
    [][ \A c \in DOMAIN commits :
            (MeetsSameName(c) /\ lookup_failures' = 0) =>
                LET owner == Unwrap(commits[c].branch_trace)
                IN  /\ \A i \in DOMAIN commits :
                           i >= c => commits'[i].branch_trace = commits[i].branch_trace
                    /\ BranchAt(branches', owner) =
                           [ BranchAt(branches, owner) EXCEPT !.range =
                               OwnerRangeAt(BranchAt(branches, owner).range, c) ] ]_vars

\* ---------------------------------------------------------------- C10
\* C10: consolidation drops a candidate exactly when its tip is not indexed or
\* it is merge-derived, not a tag, and owns no commit after all tracing.
C10_DroppedIffAbsorbed ==
    [][ (AllTraced /\ pc' = "assign_sources_targets") =>
            \A k \in 0..(Len(branches) - 1) :
                IsNone(index_map'[k + 1]) <=>
                    \/ IsNone(IndicesGet(commits, BranchAt(branches, k).target))
                    \/ /\ BranchAt(branches, k).is_merged
                       /\ ~BranchAt(branches, k).is_tag
                       /\ CommitCount(commits, k) = 0 ]_vars

\* ---------------------------------------------------------------- C13
\* The parentless commit that ends the first-parent chain from this id; None
\* when the chain leaves the indexed commits.
RECURSIVE RootOfWalk(_, _)
RootOfWalk(cs, oid) ==
    LET found == IndicesGet(cs, oid)
    IN  IF IsNone(found) THEN None
        ELSE IF IsNone(cs[Unwrap(found)].parents[1]) THEN found
             ELSE RootOfWalk(cs, Unwrap(cs[Unwrap(found)].parents[1]))

\* The candidate about to be traced walks over unowned commits only to the
\* parentless commit c.
ReachesUnownedRoot(c) ==
    /\ Tracing
    /\ LET branch == BranchAt(branches, Len(index_map))
       IN  /\ RootOfWalk(commits, branch.target) = Some(c)
           /\ IsNone(FirstOwnedOnWalk(commits, branch.target))

\* C13: every trace ends within its step, and a trace whose walk reaches an
\* unowned parentless commit (all its lookups succeeding) claims that commit,
\* records the commit's index as the candidate's range end, leaves every commit
\* off its walk alone, and reports that it claimed something: the candidate is kept.
C13_RootTermination ==
    [][ /\ (Tracing /\ pc' = "trace") => Len(index_map') = Len(index_map) + 1
        /\ \A c \in DOMAIN commits :
               (ReachesUnownedRoot(c) /\ lookup_failures' = lookup_failures) =>
                   LET k == Len(index_map)
                       walk == FirstParentChain(commits, BranchAt(branches, k).target)
                   IN  /\ commits'[c].branch_trace = Some(k)
                       /\ BranchAt(branches', k).range[2] = Some(c)
                       /\ IsSome(index_map'[k + 1])
                       /\ \A i \in DOMAIN commits \ walk :
                              commits'[i].branch_trace = commits[i].branch_trace ]_vars

\* A traced merge-derived candidate owns a parentless commit after a walk of
\* more than one commit, and that commit is its range end.
C13_Witness ==
    /\ pc = "trace"
    /\ \E k \in 0..(Len(index_map) - 1) :
           \E c \in DOMAIN commits :
               /\ BranchAt(branches, k).is_merged
               /\ IsNone(commits[c].parents[1])
               /\ commits[c].branch_trace = Some(k)
               /\ BranchAt(branches, k).range[2] = Some(c)
               /\ IndicesGet(commits, BranchAt(branches, k).target) # Some(c)
               /\ IsSome(index_map[k + 1])

\* ---------------------------------------------------------------- C16
Resolved == pc = "assign_branch_columns"

\* The owners, other than branch k, of the indexed parents of commit i, as the
\* sequence of their position groups in parent order.
ForeignParentGroups(i, k) ==
    LET owner(p) == commits[Unwrap(IndicesGet(commits, Unwrap(commits[i].parents[p])))].branch_trace
        foreign == { p \in 1..2 :
                       /\ IsSome(commits[i].parents[p])
                       /\ IsSome(IndicesGet(commits, Unwrap(commits[i].parents[p])))
                       /\ IsSome(owner(p))
                       /\ owner(p) # Some(k) }
        ps == SetToSeq(foreign)
    IN  [ x \in 1..Len(ps) |-> BranchAt(branches, Unwrap(owner(ps[x]))).visual.order_group ]

\* The commits of branch k that have a parent owned by another branch.
CommitsWithForeignParent(k) ==
    { i \in DOMAIN commits :
        commits[i].branch_trace = Some(k) /\ ForeignParentGroups(i, k) # <<>> }

\* The hint found at the most recent (lowest position) such commit.
SourceFromMostRecent(k) ==
    LET cands == CommitsWithForeignParent(k)
    IN  IF cands = {} THEN None
        ELSE Some(ForeignParentGroups(CHOOSE i \in cands : \A j \in cands : i <= j, k)[1])

\* The hint found at the oldest (highest position) such commit.
SourceFromOldest(k) ==
    LET cands == CommitsWithForeignParent(k)
    IN  IF cands = {} THEN None
        ELSE Some(ForeignParentGroups(CHOOSE i \in cands : \A j \in cands : i >= j, k)[1])

\* C16 as stated: the source hint of every surviving branch is the position
\* group of the owner of the first differing-owner parent met when its commits
\* are scanned from the most recent to the oldest; absent when there is none
\* (stated for constructions in which no lookup has failed).
C16_SourceFromMostRecent ==
    (Resolved /\ lookup_failures = 0) =>
        \A k \in 0..(Len(branches) - 1) :
            BranchAt(branches, k).visual.source_order_group = SourceFromMostRecent(k)

\* C16 as amended: the commits are scanned from the oldest to the most recent.
C16_SourceFromOldest ==
    Resolved =>
        \A k \in 0..(Len(branches) - 1) :
            BranchAt(branches, k).visual.source_order_group = SourceFromOldest(k)

\* A branch has two commits with differing-owner parents, and the two scans
\* give different groups.
C16_Witness ==
    /\ Resolved
    /\ lookup_failures = 0
    /\ \E k \in 0..(Len(branches) - 1) :
           /\ Cardinality(CommitsWithForeignParent(k)) >= 2
           /\ SourceFromMostRecent(k) # SourceFromOldest(k)

\* ---------------------------------------------------------------- C17
\* The position groups of the owners, other than branch k, of the indexed
\* children of commit i, in the order of its children list.
ForeignChildGroups(i, k) ==
    LET kids == commits[i].children
        owner(x) == commits[Unwrap(IndicesGet(commits, kids[x]))].branch_trace
        foreign == { x \in 1..Len(kids) :
                       /\ IsSome(IndicesGet(commits, kids[x]))
                       /\ IsSome(owner(x))
                       /\ owner(x) # Some(k) }
        xs == SetToSeq(foreign)
    IN  [ y \in 1..Len(xs) |-> BranchAt(branches, Unwrap(owner(xs[y]))).visual.order_group ]

\* The position group of the owner of the branch's merge-target commit, when
\* that commit is indexed and owned by another branch.
MergeTargetOwnerGroup(k) ==
    LET mt == BranchAt(branches, k).merge_target
        found == IndicesGet(commits, Unwrap(mt))
        owner == commits[Unwrap(found)].branch_trace
    IN  IF IsNone(mt) THEN None
        ELSE IF IsNone(found) THEN None
        ELSE IF IsNone(owner) \/ owner = Some(k) THEN None
        ELSE Some(BranchAt(branches, Unwrap(owner)).visual.order_group)

OwnedBy(k) == { i \in DOMAIN commits : commits[i].branch_trace = Some(k) }

\* The group of the first differing-owner child of commit i, if any.
FirstForeignChildGroup(i, k) ==
    IF ForeignChildGroups(i, k) = <<>> THEN None ELSE Some(ForeignChildGroups(i, k)[1])

SameCandidate(old_ref, new_ref) ==
    /\ new_ref \in 0..(Len(branches') - 1)
    /\ index_map'[old_ref + 1] = Some(new_ref)
    /\ BranchAt(branches', new_ref).name = BranchAt(branches, old_ref).name
    /\ BranchAt(branches', new_ref).target = BranchAt(branches, old_ref).target

\* C18: consolidation numbers the survivors 0..n-1 in catalog order, a
\* survivor's number is its position in the final branch list, and the owner
\* reference and the terminating-branch and terminating-tag entries of every
\* commit designate the candidate they designated before.
C18_RenumberingIdentity ==
    [][ (AllTraced /\ pc' = "assign_sources_targets") =>
            /\ \A k \in 1..Len(index_map') :
                   IsSome(index_map'[k]) =>
                       /\ Unwrap(index_map'[k]) =
                              Cardinality({ j \in 1..(k - 1) : IsSome(index_map'[j]) })
                       /\ BranchAt(branches', Unwrap(index_map'[k])) = branches[k]
            /\ Len(branches') = Cardinality({ j \in 1..Len(index_map') : IsSome(index_map'[j]) })
            /\ \A i \in DOMAIN commits :
                   /\ IsSome(commits[i].branch_trace) =>
                          /\ IsSome(commits'[i].branch_trace)
                          /\ SameCandidate(Unwrap(commits[i].branch_trace),
                                           Unwrap(commits'[i].branch_trace))
                   /\ IsNone(commits[i].branch_trace) => IsNone(commits'[i].branch_trace)
                   /\ Len(commits'[i].branches) = Len(commits[i].branches)
                   /\ \A x \in 1..Len(commits[i].branches) :
                          SameCandidate(commits[i].branches[x], commits'[i].branches[x])
                   /\ Len(commits'[i].tags) = Len(commits[i].tags)
                   /\ \A x \in 1..Len(commits[i].tags) :
                          SameCandidate(commits[i].tags[x], commits'[i].tags[x]) ]_vars

\* Consolidation has dropped a candidate that came before a survivor, and a
\* commit owned by a renumbered survivor also ends a branch or a tag.
C18_Witness ==
    /\ Resolved
    /\ lookup_failures = 0
    /\ \E j, k \in 1..Len(index_map) :
           /\ j < k /\ IsNone(index_map[j]) /\ IsSome(index_map[k])
           /\ \E i \in DOMAIN commits :
                  /\ commits[i].branch_trace = index_map[k]
                  /\ Len(commits[i].branches) + Len(commits[i].tags) > 0

\* ---------------------------------------------------------------- C19
\* C19: in the output, the range of the branch that owns a commit is not
\* (absent, absent), and each bound it has bounds the commit's position
\* (stated for constructions in which no lookup has failed).
C19_OwnedWithinRange ==
    (Done /\ lookup_failures = 0) =>
        \A i \in DOMAIN commits :
            IsSome(commits[i].branch_trace) =>
                LET range == BranchAt(branches, Unwrap(commits[i].branch_trace)).range
                IN  /\ range # <<None, None>>
                    /\ IsSome(range[1]) => Unwrap(range[1]) <= i
                    /\ IsSome(range[2]) => i <= Unwrap(range[2])

\* ---------------------------------------------------------------- C15
\* branches_sort for the chosen settings.branch_order.
SortedEntries(shortest_first, forward) ==
    BranchesSort(branches, Cardinality(DOMAIN commits), shortest_first, forward)

\* The allocator's state when the first j - 1 entries of branches_sort are placed.
AllocationBefore(shortest_first, forward, j) ==
    AllocateFrom(commits,
                 [ branches |-> branches,
                   occupied |-> [ g \in 1..(Len(Settings.order) + 1) |-> <<>> ] ],
                 SubSeq(SortedEntries(shortest_first, forward), 1, j - 1), 1)

\* The columns held at this moment, in the position group of candidate k, by the
\* candidate that owns k's merge-target commit (empty or one column).
HeldByMergeTargetOwner(st, k) ==
    LET br == BranchAt(st.branches, k)
        owners == { Unwrap(commits[i].branch_trace) :
                      i \in { x \in DOMAIN commits :
                                /\ IsSome(br.merge_target)
                                /\ commits[x].oid = Unwrap(br.merge_target)
                                /\ IsSome(commits[x].branch_trace) } }
    IN  { Unwrap(BranchAt(st.branches, o).visual.column) :
            o \in { x \in owners :
                      /\ BranchAt(st.branches, x).visual.order_group = br.visual.order_group
                      /\ IsSome(BranchAt(st.branches, x).visual.column) } }

\* No occupied interval of column i of the entry's group meets [start, end].
IntervalFree(st, i, entry) ==
    LET column_occ == st.occupied[BranchAt(st.branches, entry.idx).visual.order_group + 1][i + 1]
    IN  \A q \in 1..Len(column_occ) :
            entry.end < column_occ[q][1] \/ column_occ[q][2] < entry.start

ColumnsOfGroup(st, entry) ==
    0..(Len(st.occupied[BranchAt(st.branches, entry.idx).visual.order_group + 1]) - 1)

QualifyingColumns(st, entry) ==
    { i \in ColumnsOfGroup(st, entry) :
        IntervalFree(st, i, entry) /\ i \notin HeldByMergeTargetOwner(st, entry.idx) }

\* Every placement follows the rule.
PlacedByRule(shortest_first, forward) ==
    \A j \in 1..Len(SortedEntries(shortest_first, forward)) :
        LET entry == SortedEntries(shortest_first, forward)[j]
            st == AllocationBefore(shortest_first, forward, j)
            after == AllocationBefore(shortest_first, forward, j + 1)
            col == Unwrap(BranchAt(after.branches, entry.idx).visual.column)
            qualifying == QualifyingColumns(st, entry)
        IN  /\ col \notin HeldByMergeTargetOwner(st, entry.idx)
            /\ qualifying # {} => (col \in qualifying /\ \A i \in qualifying : col <= i)
            /\ qualifying = {} => col = Len(st.occupied[BranchAt(st.branches, entry.idx).visual.order_group + 1])

\* The columns the step wrote are the placements, shifted by the columns of the
\* groups before the candidate's own.
WrittenColumns(shortest_first, forward) ==
    LET final == AllocationBefore(shortest_first, forward,
                                  Len(SortedEntries(shortest_first, forward)) + 1)
        before(g) == { h \in 0..(Len(Settings.order)) : h < g }
        shift(g) == IF before(g) = {} THEN 0
                    ELSE GroupOffset(final.occupied, g - 1)
    IN  \A k \in 1..Len(branches) :
            /\ IsNone(final.branches[k].visual.column) => IsNone(branches'[k].visual.column)
            /\ IsSome(final.branches[k].visual.column) =>
                   branches'[k].visual.column =
                       Some(Unwrap(final.branches[k].visual.column)
                            + shift(branches[k].visual.order_group))

\* C15: when the column allocator places a candidate, the selected column is
\* never the one currently held, in the same position group, by the owner of the
\* candidate's merge-target commit, even when that column's intervals leave
\* [start, end] free; the lowest-indexed qualifying column is selected, and a
\* new column is opened only when no column qualifies; this for either length
\* order and either start order of branches_sort, one of which gives the columns
\* the step writes.
C15_MergeTargetColumn ==
    [][ (pc = "assign_branch_columns" /\ pc' = "filter") =>
            /\ \A shortest_first \in BOOLEAN, forward \in BOOLEAN :
                   PlacedByRule(shortest_first, forward)
            /\ \E shortest_first \in BOOLEAN, forward \in BOOLEAN :
                   WrittenColumns(shortest_first, forward) ]_vars

\* The candidates as assign_branch_columns receives them: no column is written
\* before it runs, and it writes nothing else.
BeforeAllocation(bs) ==
    [ k \in 1..Len(bs) |-> [ bs[k] EXCEPT !.visual.column = None ] ]

\* The loop over the columns of the entry's group reaches column i, finds its
\* intervals free of [start, end] and refuses it because conflict_column == i.
RefusesColumn(cs, st, entry, i) ==
    LET br == BranchAt(st.branches, entry.idx)
        group_occ == st.occupied[br.visual.order_group + 1]
    IN  /\ i \in 0..(Len(group_occ) - 1)
        /\ \A h \in 0..(i - 1) : ColumnConflict(cs, st.branches, group_occ, h, entry)
        /\ ~IntervalConflict(group_occ[i + 1], entry.start, entry.end)
        /\ ConflictColumn(cs, st.branches, br.merge_target, br.visual.order_group) = Some(i)

\* During the allocation of the candidates bs in the given order, candidate k
\* is refused a free column held by the owner of its merge-target commit.
RefusedHeldColumn(cs, bs, shortest_first, forward, k) ==
    LET sorted == BranchesSort(bs, Cardinality(DOMAIN cs), shortest_first, forward)
    IN  \E j \in 1..Len(sorted) :
            /\ sorted[j].idx = k
            /\ LET st == AllocateFrom(cs,
                             [ branches |-> bs,
                               occupied |-> [ g \in 1..(Len(Settings.order) + 1) |-> <<>> ] ],
                             SubSeq(sorted, 1, j - 1), 1)
               IN  \E i \in 0..(Len(bs) - 1) : RefusesColumn(cs, st, sorted[j], i)

\* The allocation that wrote the columns of this state has placed a
\* merge-derived candidate past a column whose intervals left its [start, end]
\* free, because the owner of its merge-target commit held it.
C15_Witness ==
    /\ pc = "filter"
    /\ \E shortest_first \in BOOLEAN, forward \in BOOLEAN :
           /\ AssignBranchColumns(commits, BeforeAllocation(branches),
                                  shortest_first, forward) = branches
           /\ \E k \in 0..(Len(branches) - 1) :
                  /\ BranchAt(branches, k).is_merged
                  /\ RefusedHeldColumn(commits, BeforeAllocation(branches),
                                       shortest_first, forward, k)

\* ---------------------------------------------------------------- C12
\* The position ranges of two records meet.
RangesOverlap(a, b) ==
    /\ RangeStart(a) <= RangeEnd(b, Cardinality(DOMAIN commits))
    /\ RangeStart(b) <= RangeEnd(a, Cardinality(DOMAIN commits))

ForkMergeDone == Done /\ lookup_failures = 0

\* C12: for the fork/merge history the result holds exactly two branch records,
\* their ranges do not overlap, and they have distinct columns when they are in
\* the same position group.
C12_ForkMerge ==
    ForkMergeDone =>
        /\ Len(branches) = 2
        /\ ~RangesOverlap(branches[1], branches[2])
        /\ branches[1].visual.order_group = branches[2].visual.order_group
               => branches[1].visual.column # branches[2].visual.column

\* C12 (amended): for the fork/merge history the result holds two branch records
\* when the branch's reference is the only one, and two or three otherwise (a
\* surviving fork reference can remain as a record without commits); when there
\* are two, their ranges overlap, and they have distinct columns when they are
\* in the same position group.
C12_ForkMergeOverlapping ==
    ForkMergeDone =>
        /\ Len(branches) \in {2, 3}
        /\ Len(repo.branch_refs) = 1 => Len(branches) = 2
        /\ Len(branches) = 2 =>
               /\ RangesOverlap(branches[1], branches[2])
               /\ branches[1].visual.order_group = branches[2].visual.order_group
                      => branches[1].visual.column # branches[2].visual.column

C12_Witness ==
    /\ ForkMergeDone
    /\ Len(repo.branch_refs) = 1
    /\ Len(branches) = 2
    /\ RangesOverlap(branches[1], branches[2])
    /\ branches[1].visual.order_group = branches[2].visual.order_group
    /\ branches[1].visual.column # branches[2].visual.column

\* ---------------------------------------------------------------- C14
\* Pattern k of the list matches the summary with exactly one group, which
\* captured a text.
Qualifies(k) ==
    LET captures == repo.summary[repo.patterns[k]]
    IN  /\ captures # None
        /\ Len(captures[1]) = 1
        /\ captures[1][1] # None

Qualifying == { k \in 1..Len(repo.patterns) : Qualifies(k) }

\* C14: parse_merge_summary returns the text captured by the first pattern, in
\* list order, that matches with exactly one capture group; a pattern matching
\* with another number of groups does not count and later patterns are tried;
\* when none qualifies the result is absent and the candidate is named
\* "unknown".  With the default patterns every supported form naming
\* feature/my-feature yields feature/my-feature.
C14_FirstSingleCapture ==
    pc = "named" =>
        /\ Qualifying = {} => (result = None /\ branches = <<NameUnknown>>)
        /\ \A k \in Qualifying :
               (\A j \in Qualifying : k <= j) =>
                   /\ result = repo.summary[repo.patterns[k]][1][1]
                   /\ branches = << result[1] >>
        /\ (repo.patterns = DefaultPatterns /\ repo.summary \in DefaultForms)
               => result = Some(FeatureName)

\* A later pattern gave the name after an earlier one matched with two groups.
C14_Witness ==
    /\ pc = "named"
    /\ Len(repo.patterns) = 2
    /\ repo.summary[repo.patterns[1]] # None
    /\ Len(repo.summary[repo.patterns[1]][1]) = 2
    /\ Qualifies(2)
    /\ result = repo.summary[repo.patterns[2]][1][1]

====
